---- MODULE Spec2Model ----
(***************************************************************************)
(* MyJournal.io: the event log -> task reconciliation (eventsToTasks of    *)
(* the useJournal hook) and the tag summary computed from its tasks, the   *)
(* journal hook's loads over the per-day files of the drive service, the   *)
(* overlap layout of VerticalTimeline, and the token handling of the auth  *)
(* service.                                                                *)
(*                                                                         *)
(* Time.  A Date is its number of milliseconds since local midnight of     *)
(* day 0; the local time zone is JST (UTC+9), the zone formatTimestamp     *)
(* writes into every timestamp.  A calendar date string "YYYY-MM-DD" is    *)
(* the day number.  A timestamp string has a resolution of one second and  *)
(* is the number of whole seconds it denotes.                              *)
(***************************************************************************)
EXTENDS Integers, Sequences, FiniteSets, TLC

VARIABLES
    rYesterday,   \* eventsToTasks: the yesterdayEvents argument
    rToday,       \* eventsToTasks: the todayEvents argument
    rNow,         \* the clock read by getTodayDateString inside eventsToTasks
    rTaskMap,     \* eventsToTasks: the values of taskMap after the loop, in Map order
    rTasks,       \* eventsToTasks: the returned array
    rThrown,      \* eventsToTasks: TRUE when the call threw instead of returning
    rTagSummary,  \* calculateTagSummary of the returned array
    vtTasks,      \* VerticalTimeline: the tasks prop
    vtNow,        \* the clock read by getTodayMidnight during the render
    vtBlocks,     \* VerticalTimeline: arrangedTasks (empty when the render returns null)
    now,          \* the clock of the browser
    nextId,       \* the next id generateEventId gives
    files,        \* the drive: date -> the events of the file <date>.json
    selectedDate, \* App: selectedDate
    journal,      \* useJournal: journal (NoJournal for null)
    tasks,        \* useJournal: tasks
    isLoading,    \* useJournal: isLoading
    error,        \* useJournal: error (NoError for null)
    calls,        \* the asynchronous calls in flight
    lastLoad,     \* what the last load that set journal and tasks was given
    lastRequest,  \* the date of the load that was requested last
    aNow,              \* auth: Date.now(), in seconds
    tokenClient,       \* auth: TRUE once initTokenClient has set tokenClient
    accessToken,       \* auth: the module's accessToken (NoToken for null)
    tokenRefreshTimer, \* auth: the refresh timer (NoTimer for null)
    sessionStorage,    \* the token and expiry entries of sessionStorage
    localStorage,      \* the token and expiry entries of localStorage
    requests,          \* requestAccessToken calls not answered yet
    nextToken,         \* the next access token Google issues
    returned,          \* what the last getAccessToken returned
    signedOut          \* TRUE from a signOut to the next signIn or silentSignIn

rvars == <<rYesterday, rToday, rNow, rTaskMap, rTasks, rThrown, rTagSummary>>
vtvars == <<vtTasks, vtNow, vtBlocks>>
jvars == <<now, nextId, files, selectedDate, journal, tasks, isLoading, error, calls, lastLoad,
          lastRequest>>
avars == <<aNow, tokenClient, accessToken, tokenRefreshTimer, sessionStorage, localStorage,
           requests, nextToken, returned, signedOut>>
vars == <<rvars, vtvars, jvars, avars>>

----------------------------------------------------------------------------
(* Bounds *)

MaxEvents == 4
MaxTasks == 4
MaxStarts == 2
MaxAppends == 2
MaxCalls == 2

----------------------------------------------------------------------------
(* Dates and timestamps: src/src/types/event.ts *)

MsPerMinute == 60000
MsPerSecond == MsPerMinute \div 60
MsPerHour == 60 * MsPerMinute
MsPerDay == 24 * MsPerHour
JstOffset == 9 * MsPerHour

\* The Date of h:m:s local time on day d.
At(d, h, m, s) == d * MsPerDay + h * MsPerHour + m * MsPerMinute + s * MsPerSecond

\* Date.getFullYear/getMonth/getDate, joined as YYYY-MM-DD: the local date.
localDate(t) == t \div MsPerDay

\* The date toISOString would give: the UTC date.
utcDate(t) == (t - JstOffset) \div MsPerDay

getHours(t) == (t % MsPerDay) \div MsPerHour

getMinutes(t) == (t % MsPerHour) \div MsPerMinute

getTodayDateString(clock) == localDate(clock)

getYesterdayDateString(clock) == localDate(clock - MsPerDay)

\* The local fields down to the second, then "+09:00": milliseconds are dropped.
formatTimestamp(t) == t \div MsPerSecond

parseTimestamp(ts) == ts * MsPerSecond

\* Math.round(x) is floor(x + 1/2).
\* A duration that is never below zero.
calculateDurationClamped(start, end) ==
    IF end < start THEN 0 ELSE (end - start + (MsPerMinute \div 2)) \div MsPerMinute

calculateDurationTrunc(start, end) == (end - start) \div MsPerMinute

calculateDuration(start, end) == (end - start + (MsPerMinute \div 2)) \div MsPerMinute

----------------------------------------------------------------------------
(* Events and tasks *)

StartEventWith(id, ts, activityName, tags) ==
    [type |-> "START", eventId |-> id, timestamp |-> ts,
     activityName |-> activityName, tags |-> tags]

StartEvent(id, ts) == StartEventWith(id, ts, "work", <<"tag">>)

EndEventWith(ref, ts, description, moodScore, progress) ==
    [type |-> "END", refEventId |-> ref, timestamp |-> ts,
     description |-> description, moodScore |-> moodScore, progress |-> progress]

EndEvent(ref, ts) == EndEventWith(ref, ts, "done", 4, 100)

\* An event whose type is none of START, END, MEMO; a missing type reads as
\* undefined.
OtherEvent(type, id, ts) == [type |-> type, eventId |-> id, timestamp |-> ts]

MemoEvent(id, ts) ==
    [type |-> "MEMO", eventId |-> id, timestamp |-> ts, content |-> "memo"]

\* The task a START event creates.
newTask(startEvent) ==
    [eventId |-> startEvent.eventId,
     activityName |-> startEvent.activityName,
     tags |-> startEvent.tags,
     startTime |-> parseTimestamp(startEvent.timestamp),
     isActive |-> TRUE]

\* The task after the assignments of the END branch.
closeTask(task, endEvent) ==
    [eventId |-> task.eventId,
     activityName |-> task.activityName,
     tags |-> task.tags,
     startTime |-> task.startTime,
     endTime |-> parseTimestamp(endEvent.timestamp),
     duration |-> calculateDuration(task.startTime, parseTimestamp(endEvent.timestamp)),
     description |-> endEvent.description,
     moodScore |-> endEvent.moodScore,
     progress |-> endEvent.progress,
     isActive |-> FALSE]

\* Map.has / Map.set on a Map kept as the sequence of its values in
\* insertion order; setting an existing key keeps the key's position.
mapHas(taskMap, id) == \E i \in 1..Len(taskMap) : taskMap[i].eventId = id

mapSet(taskMap, id, task) ==
    IF mapHas(taskMap, id)
    THEN [i \in 1..Len(taskMap) |-> IF taskMap[i].eventId = id THEN task ELSE taskMap[i]]
    ELSE Append(taskMap, task)

mapGet(taskMap, id) == taskMap[CHOOSE i \in 1..Len(taskMap) : taskMap[i].eventId = id]

\* One iteration of the loop over allEvents.
processEventCreating(taskMap, event) ==
    IF event.type = "START"
    THEN mapSet(taskMap, event.eventId, newTask(event))
    ELSE IF event.type = "END"
         THEN IF mapHas(taskMap, event.refEventId)
              THEN mapSet(taskMap, event.refEventId,
                          closeTask(mapGet(taskMap, event.refEventId), event))
              ELSE Append(taskMap,
                          closeTask([eventId |-> event.refEventId, activityName |-> "",
                                     tags |-> <<>>,
                                     startTime |-> parseTimestamp(event.timestamp),
                                     isActive |-> TRUE], event))
         ELSE taskMap

\* A loop body whose END branch leaves a task that is already closed alone.
processEventFirstEndWins(taskMap, event) ==
    IF event.type = "START"
    THEN mapSet(taskMap, event.eventId, newTask(event))
    ELSE IF event.type = "END"
         THEN IF mapHas(taskMap, event.refEventId)
                 /\ mapGet(taskMap, event.refEventId).isActive
              THEN mapSet(taskMap, event.refEventId,
                          closeTask(mapGet(taskMap, event.refEventId), event))
              ELSE taskMap
         ELSE taskMap

\* A loop body in which a MEMO moves the start of the task with its eventId.
processEventMemoRestarts(taskMap, event) ==
    IF event.type = "START"
    THEN mapSet(taskMap, event.eventId, newTask(event))
    ELSE IF event.type = "END"
         THEN IF mapHas(taskMap, event.refEventId)
              THEN mapSet(taskMap, event.refEventId,
                          closeTask(mapGet(taskMap, event.refEventId), event))
              ELSE taskMap
         ELSE IF event.type = "MEMO" /\ mapHas(taskMap, event.eventId)
              THEN mapSet(taskMap, event.eventId,
                          [mapGet(taskMap, event.eventId) EXCEPT
                              !.startTime = parseTimestamp(event.timestamp)])
              ELSE taskMap

\* A loop body whose END branch closes every task of the map.
processEventClosingAll(taskMap, event) ==
    IF event.type = "START"
    THEN mapSet(taskMap, event.eventId, newTask(event))
    ELSE IF event.type = "END"
         THEN [k \in 1..Len(taskMap) |-> closeTask(taskMap[k], event)]
         ELSE taskMap

processEvent(taskMap, event) ==
    IF event.type = "START"
    THEN mapSet(taskMap, event.eventId, newTask(event))
    ELSE IF event.type = "END"
         THEN IF mapHas(taskMap, event.refEventId)
              THEN mapSet(taskMap, event.refEventId,
                          closeTask(mapGet(taskMap, event.refEventId), event))
              ELSE taskMap
         ELSE taskMap

RECURSIVE buildTaskMap(_, _)
buildTaskMap(taskMap, events) ==
    IF events = <<>> THEN taskMap
    ELSE buildTaskMap(processEvent(taskMap, Head(events)), Tail(events))

\* eventsToTasks has no throw statement and calls nothing that throws on an
\* event object: parseTimestamp gives an Invalid Date, a type that is neither
\* START nor END takes no branch of the loop.
eventsToTasksThrowsOnEmpty(todayEvents, yesterdayEvents) ==
    yesterdayEvents \o todayEvents = <<>>

eventsToTasksThrows(todayEvents, yesterdayEvents) == FALSE

\* The filter predicate: still active, or ended on today's local date.
endedTodayUtc(task, today) ==
    task.isActive \/ utcDate(task.endTime) = today

endedToday(task, today) ==
    task.isActive \/ localDate(task.endTime) = today

filterTasks(taskSeq, today) ==
    SelectSeq(taskSeq, LAMBDA task : endedToday(task, today))

\* Array.prototype.sort is stable: insertion after every element that
\* does not have to come later.
comesBeforeAscending(a, b) == a.startTime <= b.startTime

comesBefore(a, b) == a.startTime >= b.startTime

RECURSIVE insertTask(_, _)
insertTask(sorted, task) ==
    IF sorted = <<>> THEN <<task>>
    ELSE IF comesBefore(Head(sorted), task)
         THEN <<Head(sorted)>> \o insertTask(Tail(sorted), task)
         ELSE <<task>> \o sorted

RECURSIVE sortTasks(_, _)
sortTasks(sorted, rest) ==
    IF rest = <<>> THEN sorted
    ELSE sortTasks(insertTask(sorted, Head(rest)), Tail(rest))

\* eventsToTasks(todayEvents, yesterdayEvents), the clock reading given.
taskMapOf(todayEvents, yesterdayEvents) ==
    buildTaskMap(<<>>, yesterdayEvents \o todayEvents)

eventsToTasks(todayEvents, yesterdayEvents, clock) ==
    sortTasks(<<>>, filterTasks(taskMapOf(todayEvents, yesterdayEvents),
                                getTodayDateString(clock)))

----------------------------------------------------------------------------
(* calculateTagSummary: src/unnamed/part_001.  The Map tagMinutes is the    *)
(* sequence of its entries in insertion order.                              *)

\* The key of the tasks without tags.
OtherTag == "other"

\* tasks.filter(t => !t.isActive && t.duration): a duration of 0 is falsy.
tagCompletedTasks(taskList) ==
    SelectSeq(taskList,
              LAMBDA t : ~t.isActive /\ "duration" \in DOMAIN t /\ t.duration # 0)

RECURSIVE sumDurations(_)
sumDurations(taskList) ==
    IF taskList = <<>> THEN 0
    ELSE Head(taskList).duration + sumDurations(Tail(taskList))

\* tagMinutes.set(tag, (tagMinutes.get(tag) || 0) + duration)
addTagMinutes(tagMinutes, tag, duration) ==
    IF \E i \in 1..Len(tagMinutes) : tagMinutes[i].tag = tag
    THEN [i \in 1..Len(tagMinutes) |->
             IF tagMinutes[i].tag = tag
             THEN [tag |-> tag, minutes |-> tagMinutes[i].minutes + duration]
             ELSE tagMinutes[i]]
    ELSE Append(tagMinutes, [tag |-> tag, minutes |-> duration])

\* The loop over the tags of one task.
RECURSIVE addTagsOfTask(_, _, _)
addTagsOfTask(tagMinutes, tags, duration) ==
    IF tags = <<>> THEN tagMinutes
    ELSE addTagsOfTask(addTagMinutes(tagMinutes, Head(tags), duration), Tail(tags), duration)

\* The loop over the completed tasks.
RECURSIVE tagMinutesOf(_, _)
tagMinutesOf(tagMinutes, completed) ==
    IF completed = <<>> THEN tagMinutes
    ELSE LET task == Head(completed)
         IN tagMinutesOf(IF task.tags = <<>>
                         THEN addTagMinutes(tagMinutes, OtherTag, task.duration)
                         ELSE addTagsOfTask(tagMinutes, task.tags, task.duration),
                         Tail(completed))

\* totalMinutes > 0 ? Math.round((minutes / totalMinutes) * 100) : 0, with
\* Math.round(x) = floor(x + 1/2) on the exact quotient.
percentageOf(minutes, totalMinutes) ==
    IF totalMinutes > 0
    THEN (200 * minutes + totalMinutes) \div (2 * totalMinutes)
    ELSE 0

\* summary.sort((a, b) => b.totalMinutes - a.totalMinutes), a stable sort.
summaryBefore(a, b) == a.totalMinutes >= b.totalMinutes

RECURSIVE insertSummary(_, _)
insertSummary(sorted, entry) ==
    IF sorted = <<>> THEN <<entry>>
    ELSE IF summaryBefore(Head(sorted), entry)
         THEN <<Head(sorted)>> \o insertSummary(Tail(sorted), entry)
         ELSE <<entry>> \o sorted

RECURSIVE sortSummary(_, _)
sortSummary(sorted, rest) ==
    IF rest = <<>> THEN sorted
    ELSE sortSummary(insertSummary(sorted, Head(rest)), Tail(rest))

calculateTagSummary(taskList) ==
    LET completed == tagCompletedTasks(taskList)
        totalMinutes == sumDurations(completed)
        tagMinutes == tagMinutesOf(<<>>, completed)
    IN sortSummary(<<>>,
                   [i \in 1..Len(tagMinutes) |->
                       [tag |-> tagMinutes[i].tag,
                        totalMinutes |-> tagMinutes[i].minutes,
                        percentage |-> percentageOf(tagMinutes[i].minutes, totalMinutes)]])

----------------------------------------------------------------------------
(* The reconciler on arbitrary logs.  The two arrays grow one event at a   *)
(* time and eventsToTasks is applied to each input.  Event ids come from   *)
(* crypto.randomUUID (generateEventId): no two START events share one.     *)

EventIds == {1, 2, 3}
RefIds == {1, 2}
RStamps == {formatTimestamp(At(0, 23, 30, 0)),
            formatTimestamp(At(1, 0, 0, 0)),
            formatTimestamp(At(1, 7, 0, 30))}
RNows == {At(1, 12, 0, 0) + 500}

\* The START events differ in name and tags, by their id.
RStartOf(id, ts) ==
    IF id = 1 THEN StartEventWith(id, ts, "sleep", <<>>)
    ELSE IF id = 2 THEN StartEventWith(id, ts, "read", <<"book", "home">>)
    ELSE StartEvent(id, ts)

\* The END events differ in what they report, by their timestamp.
REndOf(ref, ts) ==
    IF ts = formatTimestamp(At(0, 23, 30, 0)) THEN EndEventWith(ref, ts, "first", 2, 50)
    ELSE IF ts = formatTimestamp(At(1, 0, 0, 0)) THEN EndEventWith(ref, ts, "second", 3, 75)
    ELSE EndEvent(ref, ts)

RMalformed ==
    {OtherEvent("undefined", 3, formatTimestamp(At(1, 7, 0, 30))),
     OtherEvent("PAUSE", 3, formatTimestamp(At(1, 7, 0, 30)))}

REvents ==
    {RStartOf(id, ts) : id \in EventIds, ts \in RStamps}
    \cup {REndOf(ref, ts) : ref \in RefIds, ts \in RStamps}
    \cup {MemoEvent(3, formatTimestamp(At(1, 7, 0, 30))),
          MemoEvent(2, formatTimestamp(At(1, 7, 0, 30)))}
    \cup RMalformed

rAll == rYesterday \o rToday

freshId(e) ==
    e.type = "START" =>
        \A i \in 1..Len(rAll) : rAll[i].type = "START" => rAll[i].eventId # e.eventId

RInit ==
    /\ rYesterday = <<>>
    /\ rToday = <<>>
    /\ rNow \in RNows
    /\ rTaskMap = taskMapOf(rToday, rYesterday)
    /\ rTasks = eventsToTasks(rToday, rYesterday, rNow)
    /\ rThrown = eventsToTasksThrows(rToday, rYesterday)
    /\ rTagSummary = calculateTagSummary(rTasks)

ReconcileYesterday(e) ==
    /\ Len(rAll) < MaxEvents
    /\ rToday = <<>>
    /\ freshId(e)
    /\ rYesterday' = Append(rYesterday, e)
    /\ rTaskMap' = taskMapOf(rToday, rYesterday')
    /\ rTasks' = eventsToTasks(rToday, rYesterday', rNow)
    /\ rThrown' = eventsToTasksThrows(rToday, rYesterday')
    /\ rTagSummary' = calculateTagSummary(rTasks')
    /\ UNCHANGED <<rToday, rNow, vtvars, jvars, avars>>

ReconcileToday(e) ==
    /\ Len(rAll) < MaxEvents
    /\ freshId(e)
    /\ rToday' = Append(rToday, e)
    /\ rTaskMap' = taskMapOf(rToday', rYesterday)
    /\ rTasks' = eventsToTasks(rToday', rYesterday, rNow)
    /\ rThrown' = eventsToTasksThrows(rToday', rYesterday)
    /\ rTagSummary' = calculateTagSummary(rTasks')
    /\ UNCHANGED <<rYesterday, rNow, vtvars, jvars, avars>>

RNext ==
    \/ \E e \in REvents : ReconcileYesterday(e)
    \/ \E e \in REvents : ReconcileToday(e)


----------------------------------------------------------------------------
(* VerticalTimeline: src/src/components/VerticalTimeline.tsx *)

isMultiDayTask(task) ==
    IF "endTime" \notin DOMAIN task THEN FALSE
    ELSE localDate(task.startTime) # localDate(task.endTime)

getTodayMidnight(clock) == localDate(clock) * MsPerDay

\* A filter that lets an open task through as one that ends when it starts.
completedTasksWithOpen(taskList) ==
    [i \in 1..Len(taskList) |->
        IF "endTime" \in DOMAIN taskList[i] THEN taskList[i]
        ELSE closeTask(taskList[i], EndEvent(taskList[i].eventId,
                                             formatTimestamp(taskList[i].startTime)))]

completedTasks(taskList) ==
    SelectSeq(taskList, LAMBDA t : ~t.isActive /\ "endTime" \in DOMAIN t)

\* A map that moves the startTime itself to midnight.
processTaskMovingStart(task, clock) ==
    LET shown == IF isMultiDayTask(task) /\ task.startTime < getTodayMidnight(clock)
                 THEN getTodayMidnight(clock)
                 ELSE task.startTime
    IN [eventId |-> task.eventId,
        startTime |-> shown,
        endTime |-> task.endTime,
        duration |-> calculateDuration(shown, task.endTime),
        displayStartTime |-> shown,
        displayEndTime |-> task.endTime,
        isMultiDay |-> isMultiDayTask(task)]

\* One element of processedTasks.
processTask(task, clock) ==
    [eventId |-> task.eventId,
     startTime |-> task.startTime,
     endTime |-> task.endTime,
     duration |-> task.duration,
     displayStartTime |->
         IF isMultiDayTask(task) /\ task.startTime < getTodayMidnight(clock)
         THEN getTodayMidnight(clock)
         ELSE task.startTime,
     displayEndTime |-> task.endTime,
     isMultiDay |-> isMultiDayTask(task)]

processedTasks(taskList, clock) ==
    [i \in 1..Len(completedTasks(taskList)) |-> processTask(completedTasks(taskList)[i], clock)]

RECURSIVE minOf(_)
minOf(S) ==
    IF Cardinality(S) = 1 THEN CHOOSE x \in S : TRUE
    ELSE LET x == CHOOSE y \in S : TRUE
             m == minOf(S \ {x})
         IN IF x < m THEN x ELSE m

maxOf(S) == CHOOSE x \in S : \A y \in S : y <= x

\* Math.max(0, Math.min(...startHours)) over a non-empty processedTasks.
minHourOf(processed) ==
    LET m == minOf({getHours(processed[i].displayStartTime) : i \in 1..Len(processed)})
    IN IF m < 0 THEN 0 ELSE m

\* The comparator of sortedTasks: a stays in front of b when compare(a, b) <= 0.
layoutBeforeShorterFirst(a, b) ==
    IF a.displayStartTime # b.displayStartTime
    THEN a.displayStartTime < b.displayStartTime
    ELSE a.displayEndTime <= b.displayEndTime

layoutBeforeDescending(a, b) ==
    IF a.displayStartTime # b.displayStartTime
    THEN a.displayStartTime > b.displayStartTime
    ELSE a.displayEndTime >= b.displayEndTime

layoutBefore(a, b) ==
    IF a.displayStartTime # b.displayStartTime
    THEN a.displayStartTime < b.displayStartTime
    ELSE a.displayEndTime >= b.displayEndTime

\* An insertion that keeps one task only of those with the same display times.
RECURSIVE insertLayoutDroppingTies(_, _)
insertLayoutDroppingTies(sorted, task) ==
    IF sorted = <<>> THEN <<task>>
    ELSE IF /\ Head(sorted).displayStartTime = task.displayStartTime
            /\ Head(sorted).displayEndTime = task.displayEndTime
         THEN sorted
         ELSE IF layoutBefore(Head(sorted), task)
              THEN <<Head(sorted)>> \o insertLayoutDroppingTies(Tail(sorted), task)
              ELSE <<task>> \o sorted

RECURSIVE insertLayout(_, _)
insertLayout(sorted, task) ==
    IF sorted = <<>> THEN <<task>>
    ELSE IF layoutBefore(Head(sorted), task)
         THEN <<Head(sorted)>> \o insertLayout(Tail(sorted), task)
         ELSE <<task>> \o sorted

RECURSIVE sortLayout(_, _)
sortLayout(sorted, rest) ==
    IF rest = <<>> THEN sorted
    ELSE sortLayout(insertLayout(sorted, Head(rest)), Tail(rest))

\* Minutes from minHour: hours and minutes of the local time of day.
minutesFrom(t, minHour) == (getHours(t) - minHour) * 60 + getMinutes(t)

\* positionedTasks, before clusters and columns are known.
positionTask(task, index, minHour) ==
    [eventId |-> task.eventId,
     startTime |-> task.startTime,
     endTime |-> task.endTime,
     duration |-> task.duration,
     displayStartTime |-> task.displayStartTime,
     displayEndTime |-> task.displayEndTime,
     isMultiDay |-> task.isMultiDay,
     originalIndex |-> index,
     startMinutes |-> minutesFrom(task.displayStartTime, minHour),
     endMinutes |-> minutesFrom(task.displayEndTime, minHour)]

positionedTasks(sorted, minHour) ==
    [i \in 1..Len(sorted) |-> positionTask(sorted[i], i - 1, minHour)]

\* The cluster loop: the index of the cluster of each positioned task.
\* A test that also takes a task starting when the cluster ends.
joinsClusterWhenTouching(task, clusterEnd) == task.startMinutes <= clusterEnd

joinsCluster(task, clusterEnd) == task.startMinutes < clusterEnd

RECURSIVE clusterScan(_, _, _, _)
clusterScan(positioned, i, clusterEnd, current) ==
    IF i > Len(positioned) THEN <<>>
    ELSE IF joinsCluster(positioned[i], clusterEnd)
         THEN <<current>> \o
              clusterScan(positioned, i + 1,
                          IF positioned[i].endMinutes > clusterEnd
                          THEN positioned[i].endMinutes ELSE clusterEnd,
                          current)
         ELSE <<current + 1>> \o
              clusterScan(positioned, i + 1, positioned[i].endMinutes, current + 1)

clustersOf(positioned) ==
    IF positioned = <<>> THEN <<>>
    ELSE <<1>> \o clusterScan(positioned, 2, positioned[1].endMinutes, 1)

\* The column loop of one cluster.  columns holds the last task of each column.
columnIsFreeByStart(lastTaskInColumn, task) ==
    lastTaskInColumn.startMinutes <= task.startMinutes

columnIsFree(lastTaskInColumn, task) ==
    lastTaskInColumn.endMinutes <= task.startMinutes

chooseColumnLastFree(columns, task) ==
    IF \E i \in 1..Len(columns) : columnIsFree(columns[i], task)
    THEN maxOf({i \in 1..Len(columns) : columnIsFree(columns[i], task)})
    ELSE Len(columns) + 1

chooseColumnNeverReusing(columns, task) == Len(columns) + 1

\* The index (from 1) of the column the task goes to; Len(columns) + 1 is a new one.
chooseColumn(columns, task) ==
    IF \E i \in 1..Len(columns) : columnIsFree(columns[i], task)
    THEN minOf({i \in 1..Len(columns) : columnIsFree(columns[i], task)})
    ELSE Len(columns) + 1

placeTask(columns, task) ==
    IF chooseColumn(columns, task) <= Len(columns)
    THEN [columns EXCEPT ![chooseColumn(columns, task)] = task]
    ELSE Append(columns, task)

\* For the tasks i.. of the sorted list: the 0-based column of each.
RECURSIVE columnScan(_, _, _, _)
columnScan(positioned, clusterOf, i, columns) ==
    IF i > Len(positioned) THEN <<>>
    ELSE LET cols == IF i > 1 /\ clusterOf[i] = clusterOf[i - 1] THEN columns ELSE <<>>
         IN <<chooseColumn(cols, positioned[i]) - 1>> \o
            columnScan(positioned, clusterOf, i + 1, placeTask(cols, positioned[i]))

\* The number of tasks of the cluster instead of its number of columns.
totalColumnsOfClusterSize(clusterOf, columnOf, c) ==
    Cardinality({j \in 1..Len(clusterOf) : clusterOf[j] = c})

\* columns.length once the cluster is done: every column index up to the
\* highest one assigned has been pushed.
totalColumnsOf(clusterOf, columnOf, c) ==
    maxOf({columnOf[i] : i \in {j \in 1..Len(clusterOf) : clusterOf[j] = c}}) + 1

arrangeTasks(processed) ==
    LET minHour == minHourOf(processed)
        positioned == positionedTasks(sortLayout(<<>>, processed), minHour)
        clusterOf == clustersOf(positioned)
        columnOf == columnScan(positioned, clusterOf, 1, <<>>)
    IN [i \in 1..Len(positioned) |->
           [eventId |-> positioned[i].eventId,
            startTime |-> positioned[i].startTime,
            endTime |-> positioned[i].endTime,
            duration |-> positioned[i].duration,
            displayStartTime |-> positioned[i].displayStartTime,
            displayEndTime |-> positioned[i].displayEndTime,
            isMultiDay |-> positioned[i].isMultiDay,
            originalIndex |-> positioned[i].originalIndex,
            startMinutes |-> positioned[i].startMinutes,
            endMinutes |-> positioned[i].endMinutes,
            cluster |-> clusterOf[i],
            column |-> columnOf[i],
            totalColumns |-> totalColumnsOf(clusterOf, columnOf, clusterOf[i])]]

\* The render: null when there is no completed task, else the arranged tasks.
renderTimeline(taskList, clock) ==
    IF completedTasks(taskList) = <<>> THEN <<>>
    ELSE arrangeTasks(processedTasks(taskList, clock))

----------------------------------------------------------------------------
(* The timeline on the task lists of one day's view.  The tasks prop is       *)
(* what eventsToTasks returns on the day of the render: ordered by         *)
(* startTime descending, every closed task ending today.  It grows one     *)
(* task at a time and the component renders each list.                     *)

VtToday == 1
VtGrid == {At(VtToday, 9, 0, 0), At(VtToday, 9, 30, 0), At(VtToday, 9, 45, 0),
           At(VtToday, 10, 0, 0), At(VtToday, 10, 0, 20), At(VtToday, 10, 15, 0),
           At(VtToday, 10, 30, 0), At(VtToday, 11, 0, 0)}
VtYesterday == {At(VtToday - 1, 23, 30, 0)}

\* The clock does not go back between a START and its END.
VtIntervals == {<<s, e>> \in (VtGrid \cup VtYesterday) \X VtGrid : s <= e}

closedTask(id, s, e) ==
    [eventId |-> id, activityName |-> "work", tags |-> <<"tag">>,
     startTime |-> s, endTime |-> e, duration |-> calculateDuration(s, e),
     description |-> "done", moodScore |-> 4, progress |-> 100, isActive |-> FALSE]

activeTask(id, s) ==
    [eventId |-> id, activityName |-> "work", tags |-> <<"tag">>,
     startTime |-> s, isActive |-> TRUE]

\* The list stays in the order eventsToTasks gives it.
keepsOrder(task) ==
    IF vtTasks = <<>> THEN TRUE
    ELSE LET last == vtTasks[Len(vtTasks)]
         IN IF task.startTime # last.startTime
            THEN task.startTime < last.startTime
            ELSE IF last.isActive THEN FALSE
                 ELSE IF task.isActive THEN TRUE
                      ELSE task.endTime <= last.endTime

VtInit ==
    /\ vtTasks = <<>>
    /\ vtNow = At(VtToday, 12, 0, 0)
    /\ vtBlocks = renderTimeline(vtTasks, vtNow)

RenderWithClosed(s, e) ==
    /\ Len(vtTasks) < MaxTasks
    /\ keepsOrder(closedTask(Len(vtTasks) + 1, s, e))
    /\ vtTasks' = Append(vtTasks, closedTask(Len(vtTasks) + 1, s, e))
    /\ vtBlocks' = renderTimeline(vtTasks', vtNow)
    /\ UNCHANGED <<vtNow, rvars, jvars, avars>>

RenderWithActive(s) ==
    /\ Len(vtTasks) < MaxTasks
    /\ keepsOrder(activeTask(Len(vtTasks) + 1, s))
    /\ vtTasks' = Append(vtTasks, activeTask(Len(vtTasks) + 1, s))
    /\ vtBlocks' = renderTimeline(vtTasks', vtNow)
    /\ UNCHANGED <<vtNow, rvars, jvars, avars>>

VtNext ==
    \/ \E iv \in VtIntervals : RenderWithClosed(iv[1], iv[2])
    \/ \E s \in {At(VtToday, 10, 0, 0)} : RenderWithActive(s)


----------------------------------------------------------------------------
(* The journal hook over the drive files: src/src/services/drive.ts and    *)
(* the useJournal hook.  The user is signed in.  A call in flight is a     *)
(* record of calls; the clock reads of one synchronous stretch of code     *)
(* give the same instant.  loadJournal reads the file when the load        *)
(* completes.                                                              *)

JDays == 0..2
JInstants == {At(0, 23, 30, 0) + 250, At(1, 7, 0, 0) + 750,
              At(1, 7, 0, 30) + 100, At(2, 0, 0, 0)}
NoError == ""
LoadError == "load failed"

fileOf(date) == IF date \in DOMAIN files THEN files[date] ELSE <<>>

\* loadJournal(date) when it does not throw: the events of the file, or
\* none when there is no file or the response is not ok.
loadJournal(date, outcome) == IF outcome = "ok" THEN fileOf(date) ELSE <<>>

removeCall(i) == [k \in 1..(Len(calls) - 1) |-> IF k < i THEN calls[k] ELSE calls[k + 1]]

RECURSIVE sumLen(_)
sumLen(S) ==
    IF S = {} THEN 0
    ELSE LET d == CHOOSE x \in S : TRUE IN Len(files[d]) + sumLen(S \ {d})

appendsInFlight == Cardinality({i \in 1..Len(calls) : calls[i].op = "append"})

canAppend ==
    /\ Len(calls) < MaxCalls
    /\ sumLen(JDays) + appendsInFlight < MaxAppends
    /\ selectedDate = getTodayDateString(now)

\* appendEvent up to its first await: today's date is read.  before is
\* the stored journal of that date when the call is made (kept for the
\* properties only).
appendCall(event) ==
    [op |-> "append", stage |-> "read", event |-> event,
     date |-> getTodayDateString(now), buf |-> <<>>,
     before |-> fileOf(getTodayDateString(now))]

\* loadToday and loadDate up to their first await.
loadTodayCall ==
    [op |-> "loadToday", date |-> getTodayDateString(now),
     yesterday |-> getYesterdayDateString(now)]

loadDateCall(date) == [op |-> "loadDate", date |-> date]

\* What loadToday gives setTasks.
loadTodayTasksWithoutYesterday(todayEvents, yesterdayEvents, clock) ==
    eventsToTasks(todayEvents, <<>>, clock)

loadTodayTasks(todayEvents, yesterdayEvents, clock) ==
    eventsToTasks(todayEvents, yesterdayEvents, clock)

\* What loadDate gives setTasks.
loadDateTasks(events, clock) == eventsToTasks(events, <<>>, clock)

JInit ==
    /\ now = At(0, 23, 30, 0) + 250
    /\ nextId = 1
    /\ files = [d \in JDays |-> <<>>]
    /\ selectedDate = getTodayDateString(now)
    /\ journal = <<>>
    /\ tasks = <<>>
    /\ isLoading = TRUE
    /\ error = NoError
    /\ calls = <<loadTodayCall>>
    /\ lastLoad = [op |-> "none"]
    /\ lastRequest = getTodayDateString(now)

Tick(t) ==
    /\ UNCHANGED <<rvars, vtvars, avars>>
    /\ t > now
    /\ now' = t
    /\ UNCHANGED <<nextId, files, selectedDate, journal, tasks, isLoading, error,
                   calls, lastLoad, lastRequest>>

StartTask ==
    /\ UNCHANGED <<rvars, vtvars, avars>>
    /\ canAppend
    /\ nextId <= MaxStarts
    /\ calls' = Append(calls, appendCall(StartEvent(nextId, formatTimestamp(now))))
    /\ nextId' = nextId + 1
    /\ UNCHANGED <<now, files, selectedDate, journal, tasks, isLoading, error, lastLoad,
                   lastRequest>>

EndTask(k) ==
    /\ UNCHANGED <<rvars, vtvars, avars>>
    /\ canAppend
    /\ k \in 1..Len(tasks)
    /\ tasks[k].isActive
    /\ calls' = Append(calls, appendCall(EndEvent(tasks[k].eventId, formatTimestamp(now))))
    /\ UNCHANGED <<now, nextId, files, selectedDate, journal, tasks, isLoading, error,
                   lastLoad, lastRequest>>

AddMemo ==
    /\ UNCHANGED <<rvars, vtvars, avars>>
    /\ canAppend
    /\ nextId <= MaxStarts
    /\ calls' = Append(calls, appendCall(MemoEvent(nextId, formatTimestamp(now))))
    /\ nextId' = nextId + 1
    /\ UNCHANGED <<now, files, selectedDate, journal, tasks, isLoading, error, lastLoad,
                   lastRequest>>

\* appendEvent: loadJournal(today) resolves or throws; the event is pushed.
AppendRead(i, outcome) ==
    /\ UNCHANGED <<rvars, vtvars, avars>>
    /\ i \in 1..Len(calls)
    /\ calls[i].op = "append" /\ calls[i].stage = "read"
    /\ IF outcome = "throws"
       THEN calls' = removeCall(i)
       ELSE calls' = [calls EXCEPT
                        ![i].stage = "write",
                        ![i].buf = Append(loadJournal(calls[i].date, outcome),
                                          calls[i].event)]
    /\ UNCHANGED <<now, nextId, files, selectedDate, journal, tasks, isLoading, error,
                   lastLoad, lastRequest>>

\* appendEvent: saveJournal resolves, and the caller goes on to loadToday,
\* or saveJournal throws.
AppendWrite(i, outcome) ==
    /\ UNCHANGED <<rvars, vtvars, avars>>
    /\ i \in 1..Len(calls)
    /\ calls[i].op = "append" /\ calls[i].stage = "write"
    /\ IF outcome = "throws"
       THEN /\ calls' = removeCall(i)
            /\ UNCHANGED <<files, isLoading, error, lastRequest>>
       ELSE /\ files' = [files EXCEPT ![calls[i].date] = calls[i].buf]
            /\ calls' = [calls EXCEPT ![i] = loadTodayCall]
            /\ isLoading' = TRUE
            /\ error' = NoError
            /\ lastRequest' = loadTodayCall.date
    /\ UNCHANGED <<now, nextId, selectedDate, journal, tasks, lastLoad>>

\* App.handleDateChange(date): refresh for today, loadDate otherwise.
HandleDateChange(date) ==
    /\ UNCHANGED <<rvars, vtvars, avars>>
    /\ Len(calls) < MaxCalls
    /\ date <= getTodayDateString(now)
    /\ selectedDate' = date
    /\ calls' = Append(calls, IF date = getTodayDateString(now)
                              THEN loadTodayCall ELSE loadDateCall(date))
    /\ lastRequest' = date
    /\ isLoading' = TRUE
    /\ error' = NoError
    /\ UNCHANGED <<now, nextId, files, journal, tasks, lastLoad>>

\* App.handleRefresh: reload the selected date.
HandleRefresh ==
    /\ UNCHANGED <<rvars, vtvars, avars>>
    /\ Len(calls) < MaxCalls
    /\ calls' = Append(calls, IF selectedDate = getTodayDateString(now)
                              THEN loadTodayCall ELSE loadDateCall(selectedDate))
    /\ lastRequest' = selectedDate
    /\ isLoading' = TRUE
    /\ error' = NoError
    /\ UNCHANGED <<now, nextId, files, selectedDate, journal, tasks, lastLoad>>

\* loadToday after Promise.all: both journals, or the catch branch.
LoadTodayDone(i, outcome) ==
    /\ UNCHANGED <<rvars, vtvars, avars>>
    /\ i \in 1..Len(calls)
    /\ calls[i].op = "loadToday"
    /\ IF outcome = "throws"
       THEN /\ error' = LoadError
            /\ UNCHANGED <<journal, tasks, lastLoad>>
       ELSE LET todayEvents == loadJournal(calls[i].date, outcome[1])
                yesterdayEvents == loadJournal(calls[i].yesterday, outcome[2])
            IN /\ journal' = <<[date |-> calls[i].date, events |-> todayEvents]>>
               /\ tasks' = loadTodayTasks(todayEvents, yesterdayEvents, now)
               /\ lastLoad' = [op |-> "loadToday", date |-> calls[i].date,
                               today |-> getTodayDateString(now),
                               todayEvents |-> todayEvents,
                               yesterdayEvents |-> yesterdayEvents,
                               stored |-> files]
               /\ UNCHANGED error
    /\ isLoading' = FALSE
    /\ calls' = removeCall(i)
    /\ UNCHANGED <<now, nextId, files, selectedDate, lastRequest>>

\* A loadDate whose catch branch also empties journal and tasks.
LoadDateDoneResetting(i, outcome) ==
    /\ UNCHANGED <<rvars, vtvars, avars>>
    /\ i \in 1..Len(calls)
    /\ calls[i].op = "loadDate"
    /\ IF outcome = "throws"
       THEN /\ error' = LoadError
            /\ journal' = <<>>
            /\ tasks' = <<>>
            /\ UNCHANGED lastLoad
       ELSE LET events == loadJournal(calls[i].date, outcome)
            IN /\ journal' = <<[date |-> calls[i].date, events |-> events]>>
               /\ tasks' = loadDateTasks(events, now)
               /\ lastLoad' = [op |-> "loadDate", date |-> calls[i].date,
                               today |-> getTodayDateString(now),
                               todayEvents |-> events,
                               yesterdayEvents |-> <<>>,
                               stored |-> files]
               /\ UNCHANGED error
    /\ isLoading' = FALSE
    /\ calls' = removeCall(i)
    /\ UNCHANGED <<now, nextId, files, selectedDate, lastRequest>>

\* loadDate after its await: the journal of the date, or the catch branch.
LoadDateDone(i, outcome) ==
    /\ UNCHANGED <<rvars, vtvars, avars>>
    /\ i \in 1..Len(calls)
    /\ calls[i].op = "loadDate"
    /\ IF outcome = "throws"
       THEN /\ error' = LoadError
            /\ UNCHANGED <<journal, tasks, lastLoad>>
       ELSE LET events == loadJournal(calls[i].date, outcome)
            IN /\ journal' = <<[date |-> calls[i].date, events |-> events]>>
               /\ tasks' = loadDateTasks(events, now)
               /\ lastLoad' = [op |-> "loadDate", date |-> calls[i].date,
                               today |-> getTodayDateString(now),
                               todayEvents |-> events,
                               yesterdayEvents |-> <<>>,
                               stored |-> files]
               /\ UNCHANGED error
    /\ isLoading' = FALSE
    /\ calls' = removeCall(i)
    /\ UNCHANGED <<now, nextId, files, selectedDate, lastRequest>>

ReadOutcomes == {"ok", "notOk", "throws"}
WriteOutcomes == {"ok", "throws"}
LoadTodayOutcomes == ({"ok", "notOk"} \X {"ok", "notOk"}) \cup {"throws"}

Next ==
    \/ \E t \in JInstants : Tick(t)
    \/ StartTask
    \/ \E k \in 1..MaxStarts : EndTask(k)
    \/ AddMemo
    \/ \E i \in 1..MaxCalls, o \in ReadOutcomes : AppendRead(i, o)
    \/ \E i \in 1..MaxCalls, o \in WriteOutcomes : AppendWrite(i, o)
    \/ \E d \in JDays : HandleDateChange(d)
    \/ HandleRefresh
    \/ \E i \in 1..MaxCalls, o \in LoadTodayOutcomes : LoadTodayDone(i, o)
    \/ \E i \in 1..MaxCalls, o \in ReadOutcomes : LoadDateDone(i, o)

----------------------------------------------------------------------------
(* The auth service: src/src/services/auth.ts.  Times are in seconds.  Only *)
(* the ACCESS_TOKEN and TOKEN_EXPIRY entries of the two storages are kept.  *)

MaxRequests == 2
MaxTokens == 2

NoToken == 0
NoTimer == [state |-> "null", due |-> 0]
NoEntry == [token |-> NoToken, expiry |-> 0]

ExpiryBuffer == 60
RefreshLead == 300

AInstants == {0, 100, 3400, 3700}
AExpiresIn == {3600, 250}
AResponses ==
    {[error |-> TRUE, expires_in |-> 0]}
    \cup {[error |-> FALSE, expires_in |-> x] : x \in AExpiresIn}

\* Date.now() < expiryTime - 60000
stillValid(expiry, clock) == clock < expiry - ExpiryBuffer

\* getStoredToken: sessionStorage first, localStorage when it has no token.
storedEntry(session, local) == IF session.token # NoToken THEN session ELSE local

getStoredToken(session, local, clock) ==
    LET e == storedEntry(session, local)
    IN IF e.token # NoToken /\ stillValid(e.expiry, clock) THEN e.token ELSE NoToken

\* sessionStorage after getStoredToken: a valid token is written back to it.
sessionAfterGetStoredToken(session, local, clock) ==
    IF getStoredToken(session, local, clock) # NoToken
    THEN storedEntry(session, local)
    ELSE session

\* scheduleTokenRefresh: an earlier timer is cleared (the variable keeps its
\* id); a new one is set when the delay is positive.
scheduleTokenRefresh(timer, delaySeconds, clock) ==
    IF delaySeconds > 0
    THEN [state |-> "set", due |-> clock + delaySeconds]
    ELSE IF timer.state = "null" THEN timer ELSE [state |-> "cleared", due |-> 0]

\* getAccessToken: the value it returns.  The token and the expiry of a
\* storage are written and removed together, so a storage has an expiry
\* exactly when it has a token.
getAccessToken(memory, session, local, clock) ==
    IF memory # NoToken /\ session.token # NoToken /\ stillValid(session.expiry, clock)
    THEN memory
    ELSE getStoredToken(session, local, clock)

AInit ==
    /\ aNow = 0
    /\ tokenClient = FALSE
    /\ accessToken = NoToken
    /\ tokenRefreshTimer = NoTimer
    /\ sessionStorage = NoEntry
    /\ localStorage = NoEntry
    /\ requests = 0
    /\ nextToken = 1
    /\ returned = NoToken
    /\ signedOut = FALSE

ATick(t) ==
    /\ t > aNow
    /\ aNow' = t
    /\ UNCHANGED <<tokenClient, accessToken, tokenRefreshTimer, sessionStorage, localStorage,
                   requests, nextToken, returned, signedOut>>
    /\ UNCHANGED <<rvars, vtvars, jvars>>

\* initGoogleAuth, once the script is there: initTokenClient.
InitGoogleAuth ==
    /\ ~tokenClient
    /\ tokenClient' = TRUE
    /\ UNCHANGED <<aNow, accessToken, tokenRefreshTimer, sessionStorage, localStorage,
                   requests, nextToken, returned, signedOut>>
    /\ UNCHANGED <<rvars, vtvars, jvars>>

\* The page is loaded again: the module starts anew, the storages are kept
\* and the answers to the requests of the old page are not delivered.
Reload ==
    /\ tokenClient' = FALSE
    /\ accessToken' = NoToken
    /\ tokenRefreshTimer' = NoTimer
    /\ requests' = 0
    /\ returned' = NoToken
    /\ UNCHANGED <<aNow, sessionStorage, localStorage, nextToken, signedOut>>
    /\ UNCHANGED <<rvars, vtvars, jvars>>

\* tokenClient.requestAccessToken({ prompt: '' }) after the callback is set.
requestAccessToken == requests' = requests + 1

\* silentSignIn up to the request; it rejects without a token client.
SilentSignIn ==
    /\ requests < MaxRequests
    /\ IF tokenClient THEN requestAccessToken ELSE UNCHANGED requests
    /\ signedOut' = FALSE
    /\ UNCHANGED <<aNow, tokenClient, accessToken, tokenRefreshTimer, sessionStorage,
                   localStorage, nextToken, returned>>
    /\ UNCHANGED <<rvars, vtvars, jvars>>

\* signIn: a stored valid token is taken, otherwise a token is requested.
SignIn ==
    /\ requests < MaxRequests
    /\ IF ~tokenClient
       THEN UNCHANGED <<accessToken, sessionStorage, requests>>
       ELSE IF getStoredToken(sessionStorage, localStorage, aNow) # NoToken
            THEN /\ accessToken' = getStoredToken(sessionStorage, localStorage, aNow)
                 /\ sessionStorage' =
                        sessionAfterGetStoredToken(sessionStorage, localStorage, aNow)
                 /\ UNCHANGED requests
            ELSE /\ requestAccessToken
                 /\ UNCHANGED <<accessToken, sessionStorage>>
    /\ signedOut' = FALSE
    /\ UNCHANGED <<aNow, tokenClient, tokenRefreshTimer, localStorage, nextToken, returned>>
    /\ UNCHANGED <<rvars, vtvars, jvars>>

\* The timer set by scheduleTokenRefresh fires: silentSignIn is called.
RefreshTimerFires ==
    /\ tokenRefreshTimer.state = "set"
    /\ aNow >= tokenRefreshTimer.due
    /\ requests < MaxRequests
    /\ tokenRefreshTimer' = [state |-> "fired", due |-> 0]
    /\ IF tokenClient THEN requestAccessToken ELSE UNCHANGED requests
    /\ signedOut' = FALSE
    /\ UNCHANGED <<aNow, tokenClient, accessToken, sessionStorage, localStorage, nextToken,
                   returned>>
    /\ UNCHANGED <<rvars, vtvars, jvars>>

\* saveToken(token, expiresIn)
saveToken(token, expiresIn) ==
    /\ accessToken' = token
    /\ localStorage' = [token |-> token, expiry |-> aNow + expiresIn]
    /\ sessionStorage' = [token |-> token, expiry |-> aNow + expiresIn]
    /\ tokenRefreshTimer' =
           scheduleTokenRefresh(tokenRefreshTimer, expiresIn - RefreshLead, aNow)

\* Google answers a request: the callback set by signIn or silentSignIn runs,
\* with an error or with a token.
TokenResponse(response) ==
    /\ requests > 0
    /\ requests' = requests - 1
    /\ IF response.error
       THEN UNCHANGED <<accessToken, localStorage, sessionStorage, tokenRefreshTimer,
                        nextToken>>
       ELSE /\ nextToken <= MaxTokens
            /\ saveToken(nextToken, response.expires_in)
            /\ nextToken' = nextToken + 1
    /\ UNCHANGED <<aNow, tokenClient, returned, signedOut>>
    /\ UNCHANGED <<rvars, vtvars, jvars>>

\* signOut: the token is revoked, the timer cleared, memory and storages emptied.
SignOut ==
    /\ tokenRefreshTimer' = NoTimer
    /\ accessToken' = NoToken
    /\ localStorage' = NoEntry
    /\ sessionStorage' = NoEntry
    /\ signedOut' = TRUE
    /\ UNCHANGED <<aNow, tokenClient, requests, nextToken, returned>>
    /\ UNCHANGED <<rvars, vtvars, jvars>>

\* getAccessToken, with what it writes when it falls back to the storages.
GetAccessToken ==
    /\ returned' = getAccessToken(accessToken, sessionStorage, localStorage, aNow)
    /\ IF accessToken # NoToken /\ sessionStorage.token # NoToken
          /\ stillValid(sessionStorage.expiry, aNow)
       THEN UNCHANGED <<accessToken, sessionStorage>>
       ELSE /\ sessionStorage' =
                   sessionAfterGetStoredToken(sessionStorage, localStorage, aNow)
            /\ accessToken' =
                   IF getStoredToken(sessionStorage, localStorage, aNow) # NoToken
                   THEN getStoredToken(sessionStorage, localStorage, aNow)
                   ELSE accessToken
    /\ UNCHANGED <<aNow, tokenClient, tokenRefreshTimer, localStorage, requests, nextToken,
                   signedOut>>
    /\ UNCHANGED <<rvars, vtvars, jvars>>

ANext ==
    \/ \E t \in AInstants : ATick(t)
    \/ InitGoogleAuth
    \/ Reload
    \/ SilentSignIn
    \/ SignIn
    \/ RefreshTimerFires
    \/ \E response \in AResponses : TokenResponse(response)
    \/ SignOut
    \/ GetAccessToken

----------------------------------------------------------------------------
(* The specifications.  Each one runs one part; the others stay as they    *)
(* start.                                                                  *)

Init == JInit /\ RInit /\ VtInit /\ AInit

Spec == Init /\ [][Next]_vars

SpecReconcile == Init /\ [][RNext]_vars

SpecLayout == Init /\ [][VtNext]_vars

SpecAuth == Init /\ [][ANext]_vars

----------------------------------------------------------------------------
(* Claims about eventsToTasks, checked under SpecReconcile *)

isStartOf(e, id) == e.type = "START" /\ e.eventId = id

isEndOf(e, id) == e.type = "END" /\ e.refEventId = id

hasStart(id) == \E i \in 1..Len(rAll) : isStartOf(rAll[i], id)

hasEnd(id) == \E i \in 1..Len(rAll) : isEndOf(rAll[i], id)

posOfStart(id) == CHOOSE i \in 1..Len(rAll) : isStartOf(rAll[i], id)

onlyEndOf(j, id) == \A k \in 1..Len(rAll) : isEndOf(rAll[k], id) => k = j

\* C1 (as claimed): a START S and the one END E that references it, at any
\* two positions of the input, give a task for S that is closed, ends at
\* E.timestamp and lasts round((E.timestamp - S.timestamp) / 60000) minutes.
C1_PairingAnyOrder ==
    \A i, j \in 1..Len(rAll) :
        (/\ rAll[i].type = "START"
         /\ isEndOf(rAll[j], rAll[i].eventId)
         /\ onlyEndOf(j, rAll[i].eventId))
        => \E k \in 1..Len(rTaskMap) :
              /\ rTaskMap[k].eventId = rAll[i].eventId
              /\ rTaskMap[k].isActive = FALSE
              /\ rTaskMap[k].endTime = parseTimestamp(rAll[j].timestamp)
              /\ rTaskMap[k].duration * MsPerMinute - (MsPerMinute \div 2)
                     <= rTaskMap[k].endTime - rTaskMap[k].startTime
              /\ rTaskMap[k].endTime - rTaskMap[k].startTime
                     < rTaskMap[k].duration * MsPerMinute + (MsPerMinute \div 2)

\* C4: a reconciled task is in the output exactly when it is still active or
\* its endTime is on today's local date; the output holds nothing else and no
\* task twice, and a reconciled task whose startTime and endTime are both on
\* the prior day is never in it.
C4_DayFilterExact ==
    /\ \A k \in 1..Len(rTaskMap) :
          (\E i \in 1..Len(rTasks) : rTasks[i] = rTaskMap[k])
          <=> (rTaskMap[k].isActive
               \/ localDate(rTaskMap[k].endTime) = localDate(rNow))
    /\ \A i \in 1..Len(rTasks) : \E k \in 1..Len(rTaskMap) : rTaskMap[k] = rTasks[i]
    /\ \A i, j \in 1..Len(rTasks) : rTasks[i].eventId = rTasks[j].eventId => i = j
    /\ \A k \in 1..Len(rTaskMap) :
          (/\ "endTime" \in DOMAIN rTaskMap[k]
           /\ localDate(rTaskMap[k].startTime) = localDate(rNow) - 1
           /\ localDate(rTaskMap[k].endTime) = localDate(rNow) - 1)
          => \A i \in 1..Len(rTasks) : rTasks[i].eventId # rTaskMap[k].eventId

\* Witness of C4: a task closed on the prior day is left out while a task
\* started on the prior day and closed today is kept.
C4_Witness ==
    /\ Len(rTaskMap) = 2
    /\ \E k \in 1..Len(rTaskMap) :
          /\ rTaskMap[k].isActive = FALSE
          /\ localDate(rTaskMap[k].endTime) = localDate(rNow) - 1
    /\ Len(rTasks) = 1
    /\ rTasks[1].isActive = FALSE
    /\ localDate(rTasks[1].startTime) = localDate(rNow) - 1

\* The input without the END events that reference no START of the input.
withoutOrphans(events) ==
    SelectSeq(events, LAMBDA e : e.type = "END" => hasStart(e.refEventId))

\* C6: an END whose refEventId matches no START creates no task and changes
\* none (the result is that of the input without it); a START that no END
\* references gives exactly one task, active, with no endTime and no duration.
C6_OrphanTolerance ==
    /\ \A k \in 1..Len(rTaskMap) : hasStart(rTaskMap[k].eventId)
    /\ rTaskMap = taskMapOf(withoutOrphans(rToday), withoutOrphans(rYesterday))
    /\ rTasks = eventsToTasks(withoutOrphans(rToday), withoutOrphans(rYesterday), rNow)
    /\ \A i \in 1..Len(rAll) :
          (rAll[i].type = "START" /\ ~hasEnd(rAll[i].eventId))
          => /\ Cardinality({k \in 1..Len(rTasks) :
                                rTasks[k].eventId = rAll[i].eventId}) = 1
             /\ \A k \in 1..Len(rTasks) :
                   rTasks[k].eventId = rAll[i].eventId
                   => /\ rTasks[k].isActive = TRUE
                      /\ "endTime" \notin DOMAIN rTasks[k]
                      /\ "duration" \notin DOMAIN rTasks[k]

\* Witness of C6: an orphan END processed before and after a START that
\* stays open.
C6_Witness ==
    /\ Len(rAll) = 3
    /\ rYesterday # <<>> /\ rToday # <<>>
    /\ rAll[1].type = "END" /\ ~hasStart(rAll[1].refEventId)
    /\ rAll[2].type = "START" /\ ~hasEnd(rAll[2].eventId)
    /\ rAll[3].type = "END" /\ ~hasStart(rAll[3].refEventId)
    /\ Len(rTasks) = 1

\* C10: the output is ordered by startTime descending, and two tasks with
\* the same startTime are in the order of their START events in the input.
C10_SortOrder ==
    \A i, j \in 1..Len(rTasks) :
        i < j =>
            /\ rTasks[i].startTime >= rTasks[j].startTime
            /\ rTasks[i].startTime = rTasks[j].startTime
               => posOfStart(rTasks[i].eventId) < posOfStart(rTasks[j].eventId)

\* Witness of C10: three tasks, the earliest START first in the input, the
\* two others with the same startTime.
C10_Witness ==
    /\ Len(rTasks) = 3
    /\ rTasks[1].startTime = rTasks[2].startTime
    /\ rTasks[2].startTime > rTasks[3].startTime
    /\ rAll[1].type = "START" /\ rAll[1].eventId = rTasks[3].eventId

----------------------------------------------------------------------------
(* Claims about the layout, checked under SpecLayout *)

maxInt(a, b) == IF a > b THEN a ELSE b

minInt(a, b) == IF a < b THEN a ELSE b

\* The intervals [startTime, endTime) of two tasks share an instant.
overlapInTime(a, b) ==
    maxInt(a.startTime, b.startTime) < minInt(a.endTime, b.endTime)

\* The intervals [startMinutes, endMinutes) of two blocks share an offset.
overlapInOffsets(a, b) ==
    maxInt(a.startMinutes, b.startMinutes) < minInt(a.endMinutes, b.endMinutes)

blockIds == 1..Len(vtBlocks)

clusterIds == {vtBlocks[i].cluster : i \in blockIds}

blocksOfCluster(c) == {i \in blockIds : vtBlocks[i].cluster = c}

activeAt(block, offset) ==
    /\ block.startMinutes <= offset
    /\ offset < block.endMinutes \/ offset = block.startMinutes

\* The largest number of tasks of cluster c active at one same offset; the
\* number of active tasks only grows at a start offset.
peakConcurrency(c) ==
    maxOf({Cardinality({i \in blocksOfCluster(c) : activeAt(vtBlocks[i], vtBlocks[k].startMinutes)})
           : k \in blocksOfCluster(c)})

positiveLength(c) ==
    \A i \in blocksOfCluster(c) : vtBlocks[i].startMinutes < vtBlocks[i].endMinutes

noOverlapInTime ==
    \A i, j \in blockIds : i # j => ~overlapInTime(vtBlocks[i], vtBlocks[j])

allFullWidth ==
    \A i \in blockIds : vtBlocks[i].column = 0 /\ vtBlocks[i].totalColumns = 1

----------------------------------------------------------------------------
(* Claims about loadToday and loadDate, checked under Spec.  lastLoad is   *)
(* the last load that reached setTasks: its date, the day it completed     *)
(* on, the events it was given and the files at that moment.               *)

startsIn(events) == {events[i].eventId : i \in {k \in 1..Len(events) : events[k].type = "START"}}

endsOf(events, id) == {k \in 1..Len(events) : isEndOf(events[k], id)}

lastEndOf(events, id) == events[CHOOSE k \in endsOf(events, id) : \A j \in endsOf(events, id) : j <= k]

startOf(events, id) == events[CHOOSE k \in 1..Len(events) : isStartOf(events[k], id)]

tasksFor(id) == {k \in 1..Len(tasks) : tasks[k].eventId = id}

\* d is the difference in minutes, rounded to the nearest, halves upward.
isRoundedMinutes(d, diff) ==
    /\ 2 * diff >= 2 * MsPerMinute * d - MsPerMinute
    /\ 2 * diff < 2 * MsPerMinute * d + MsPerMinute

loadedToday == lastLoad.op = "loadToday" /\ lastLoad.date = lastLoad.today

\* C2: after loadToday has reconciled today's view, every START of the
\* yesterday log it was given whose END is in the today log it was given has
\* exactly one task; that task is closed, ends at the END's timestamp and
\* lasts the rounded number of minutes between the two timestamps.
C2_MidnightSpanningTask ==
    loadedToday =>
        \A id \in startsIn(lastLoad.yesterdayEvents) :
            endsOf(lastLoad.todayEvents, id) # {} =>
                LET S == startOf(lastLoad.yesterdayEvents, id)
                    E == lastEndOf(lastLoad.todayEvents, id)
                IN /\ Cardinality(tasksFor(id)) = 1
                   /\ \A k \in tasksFor(id) :
                        /\ tasks[k].isActive = FALSE
                        /\ "endTime" \in DOMAIN tasks[k]
                        /\ tasks[k].startTime = parseTimestamp(S.timestamp)
                        /\ tasks[k].endTime = parseTimestamp(E.timestamp)
                        /\ isRoundedMinutes(tasks[k].duration,
                                            parseTimestamp(E.timestamp)
                                              - parseTimestamp(S.timestamp))

\* The 23:30 to 07:00 task, 450 minutes, loaded on the day of the END.
C2_Witness ==
    /\ loadedToday
    /\ lastLoad.today = 1
    /\ \E id \in startsIn(lastLoad.yesterdayEvents) :
         /\ endsOf(lastLoad.todayEvents, id) # {}
         /\ startOf(lastLoad.yesterdayEvents, id).timestamp = formatTimestamp(At(0, 23, 30, 0))
         /\ lastEndOf(lastLoad.todayEvents, id).timestamp = formatTimestamp(At(1, 7, 0, 0))
         /\ \E k \in tasksFor(id) : ~tasks[k].isActive /\ tasks[k].duration = 450
    /\ Len(tasks) = 1

loadedPast == lastLoad.op = "loadDate" /\ lastLoad.date < lastLoad.today

\* C3 (as claimed): in the view of a past day D, a START of D's log whose END
\* is in the log of D+1 has no task.
C3_StartDayViewHasNoTask ==
    (loadedPast /\ lastLoad.date + 1 \in JDays) =>
        \A id \in startsIn(lastLoad.todayEvents) :
            endsOf(lastLoad.stored[lastLoad.date + 1], id) # {} =>
                tasksFor(id) = {}

\* C5 (as claimed): in the view of a past day D loaded with loadDate(D),
\* every START of the logs of D-1 and D whose END is in D's log with a
\* timestamp on D has a closed task in the list.
C5_PastViewHasTasksEndingThatDay ==
    loadedPast =>
        LET D == lastLoad.date
            before == IF D - 1 \in JDays THEN lastLoad.stored[D - 1] ELSE <<>>
            log == lastLoad.stored[D]
        IN \A id \in startsIn(before \o log) :
             (/\ endsOf(log, id) # {}
              /\ localDate(parseTimestamp(lastEndOf(log, id).timestamp)) = D)
             => \E k \in tasksFor(id) : ~tasks[k].isActive

\* The step in which the appendEvent of call i completes: saveJournal
\* resolves, the file of the call's date is written and the caller goes on
\* to loadToday.
appendCompletes(i) ==
    /\ i \in 1..Len(calls)
    /\ calls[i].op = "append"
    /\ calls[i].stage = "write"
    /\ Len(calls') = Len(calls)
    /\ calls'[i].op = "loadToday"

isPrefix(a, b) == Len(a) <= Len(b) /\ SubSeq(b, 1, Len(a)) = a

\* C11 (as claimed): when an appendEvent(e) completes, the stored journal of
\* its date begins with the events it held before the call, unchanged and in
\* the same order, and ends with e.
C11_AppendOnly ==
    [][\A i \in 1..MaxCalls :
          appendCompletes(i)
          => LET stored == files'[calls[i].date]
             IN /\ isPrefix(calls[i].before, stored)
                /\ Len(stored) > Len(calls[i].before)
                /\ stored[Len(stored)] = calls[i].event]_vars

----------------------------------------------------------------------------
(* More claims about eventsToTasks, checked under SpecReconcile *)

isMalformed(e) == e.type \notin {"START", "END", "MEMO"}

\* C12 (as claimed): when the input holds an event whose type is missing or
\* is none of START, END, MEMO, the call ends with an error.
C12_MalformedIsAnError ==
    (\E i \in 1..Len(rAll) : isMalformed(rAll[i])) => rThrown

startIds == {rAll[i].eventId : i \in {k \in 1..Len(rAll) : rAll[k].type = "START"}}

tasksOfMap(id) == {k \in 1..Len(rTaskMap) : rTaskMap[k].eventId = id}

\* Every START has exactly one task in the map, with its id, name, tags and
\* timestamp, and the map holds no other task.
oneTaskPerStart ==
    /\ \A k \in 1..Len(rTaskMap) : rTaskMap[k].eventId \in startIds
    /\ \A i \in 1..Len(rAll) :
          rAll[i].type = "START" =>
              /\ Cardinality(tasksOfMap(rAll[i].eventId)) = 1
              /\ \A k \in tasksOfMap(rAll[i].eventId) :
                    /\ rTaskMap[k].activityName = rAll[i].activityName
                    /\ rTaskMap[k].tags = rAll[i].tags
                    /\ rTaskMap[k].startTime = parseTimestamp(rAll[i].timestamp)

\* The step that processes one more END leaves the number of tasks and every
\* task with another eventId as they were.
endTouchesOneTask ==
    LET e == rAll'[Len(rAll')]
    IN (Len(rAll') = Len(rAll) + 1 /\ e.type = "END")
       => /\ Len(rTaskMap') = Len(rTaskMap)
          /\ \A k \in 1..Len(rTaskMap) :
                rTaskMap[k].eventId # e.refEventId => rTaskMap'[k] = rTaskMap[k]

\* C13: the START events (distinct ids) have exactly one task each in the
\* reconciled collection before the day filter, carrying the START's id,
\* name, tags and timestamp; processing an END changes at most the task
\* whose eventId is its refEventId.
C13_OneTaskPerStart == []oneTaskPerStart /\ [][endTouchesOneTask]_vars

\* Witness of C13: two tasks with different names; the last event, an END,
\* has closed the second and left the first open.
C13_Witness ==
    /\ Len(rAll) = 3
    /\ Len(rTaskMap) = 2
    /\ rAll[3].type = "END" /\ rAll[3].refEventId = rTaskMap[2].eventId
    /\ rTaskMap[1].isActive /\ ~rTaskMap[2].isActive
    /\ rTaskMap[1].activityName # rTaskMap[2].activityName

endPositions(id) == {j \in 1..Len(rAll) : isEndOf(rAll[j], id)}

lastEndPosition(id) == CHOOSE j \in endPositions(id) : \A k \in endPositions(id) : k <= j

----------------------------------------------------------------------------
(* More claims about the journal, checked under Spec *)

storedAtLoad(date) == IF date \in DOMAIN lastLoad.stored THEN lastLoad.stored[date] ELSE <<>>

\* C16 (as claimed): the tasks set by a loadToday that did not fail are the
\* reconciliation of the events stored for its date and for the day before,
\* on the day the load completed.
C16_TasksFromStoredLog ==
    lastLoad.op = "loadToday" =>
        tasks = eventsToTasks(storedAtLoad(lastLoad.date), storedAtLoad(lastLoad.date - 1),
                              lastLoad.today * MsPerDay)

----------------------------------------------------------------------------
(* More claims about the timeline, checked under SpecLayout *)

tasksOfBlock(b) == {k \in 1..Len(vtTasks) : vtTasks[k].eventId = vtBlocks[b].eventId}

blocksOfTask(k) == {b \in blockIds : vtBlocks[b].eventId = vtTasks[k].eventId}

\* C17: every task arrangeTasks positions is a task of the list that is not
\* active and has an endTime, and an active task of the list has no block.
C17_OnlyClosedTasksLaidOut ==
    /\ \A b \in blockIds :
          /\ tasksOfBlock(b) # {}
          /\ \A k \in tasksOfBlock(b) :
                vtTasks[k].isActive = FALSE /\ "endTime" \in DOMAIN vtTasks[k]
    /\ \A k \in 1..Len(vtTasks) : vtTasks[k].isActive => blocksOfTask(k) = {}

\* Witness of C17: a list with an active task between closed ones; the
\* closed ones are laid out.
C17_Witness ==
    /\ Len(vtTasks) = 3
    /\ ~vtTasks[1].isActive /\ vtTasks[2].isActive /\ ~vtTasks[3].isActive
    /\ Len(vtBlocks) = 2

\* C18: eventsToTasks on zero events returns the empty list without an
\* error, and a task list without a closed task gives no positioned block.
C18_EmptyInEmptyOut ==
    /\ rAll = <<>> => (rTasks = <<>> /\ rTaskMap = <<>> /\ ~rThrown)
    /\ (\A k \in 1..Len(vtTasks) : vtTasks[k].isActive) => vtBlocks = <<>>

\* Witness of C18: the reconciler has run on zero events and the timeline
\* on a list whose only task is active.
C18_Witness ==
    /\ rAll = <<>> /\ rTasks = <<>>
    /\ Len(vtTasks) = 1 /\ vtTasks[1].isActive
    /\ vtBlocks = <<>>

\* The blocks linked to those of S by a chain of blocks in which consecutive
\* ones overlap, in time and in minute offsets.
RECURSIVE chainInTime(_)
chainInTime(S) ==
    LET T == S \cup {k \in blockIds : \E m \in S : overlapInTime(vtBlocks[m], vtBlocks[k])}
    IN IF T = S THEN S ELSE chainInTime(T)

RECURSIVE chainInOffsets(_)
chainInOffsets(S) ==
    LET T == S \cup {k \in blockIds : \E m \in S : overlapInOffsets(vtBlocks[m], vtBlocks[k])}
    IN IF T = S THEN S ELSE chainInOffsets(T)

hasLength(i) == vtBlocks[i].startMinutes < vtBlocks[i].endMinutes

beganBeforeToday(k) ==
    /\ "endTime" \in DOMAIN vtTasks[k]
    /\ localDate(vtTasks[k].startTime) < localDate(vtNow)
    /\ localDate(vtTasks[k].endTime) = localDate(vtNow)

\* C20: a closed task that began before the day of the render and ends on
\* it is laid out from local midnight of that day (start offset 0 of a
\* timeline that begins at hour 0), and its block keeps the task's
\* startTime, endTime and duration; so does every other block.
C20_ClippingIsDisplayOnly ==
    /\ \A k \in 1..Len(vtTasks) :
          beganBeforeToday(k) =>
              /\ blocksOfTask(k) # {}
              /\ \A b \in blocksOfTask(k) :
                    /\ vtBlocks[b].displayStartTime = localDate(vtNow) * MsPerDay
                    /\ vtBlocks[b].startMinutes = 0
                    /\ vtBlocks[b].isMultiDay
    /\ \A b \in blockIds : \A k \in tasksOfBlock(b) :
          /\ vtBlocks[b].startTime = vtTasks[k].startTime
          /\ vtBlocks[b].endTime = vtTasks[k].endTime
          /\ vtBlocks[b].duration = vtTasks[k].duration

\* Witness of C20: a task from 23:30 of the day before to 09:30 today, laid
\* out from offset 0 to offset 570 with its 600 minutes.
C20_Witness ==
    \E k \in 1..Len(vtTasks) :
        /\ beganBeforeToday(k)
        /\ vtTasks[k].startTime = At(VtToday - 1, 23, 30, 0)
        /\ vtTasks[k].endTime = At(VtToday, 9, 30, 0)
        /\ \E b \in blocksOfTask(k) :
              /\ vtBlocks[b].startMinutes = 0
              /\ vtBlocks[b].endMinutes = 570
              /\ vtBlocks[b].duration = 600
              /\ vtBlocks[b].startTime = At(VtToday - 1, 23, 30, 0)

placedBefore(j) ==
    {i \in blockIds : i < j /\ vtBlocks[i].cluster = vtBlocks[j].cluster}

columnsBefore(j) == {vtBlocks[i].column : i \in placedBefore(j)}

lastPlacedIn(j, c) ==
    maxOf({i \in placedBefore(j) : vtBlocks[i].column = c})

fitsBefore(j) ==
    {c \in columnsBefore(j) :
        vtBlocks[lastPlacedIn(j, c)].endMinutes <= vtBlocks[j].startMinutes}

\* C22: every task is in the lowest-indexed column of its cluster whose
\* last-placed task has end offset <= the task's start offset; it is in a new
\* column, the next index, only when no column is such; the first task of a
\* cluster is in column 0.
C22_FirstFit ==
    \A j \in blockIds :
        /\ columnsBefore(j) = 0..(Cardinality(columnsBefore(j)) - 1)
        /\ fitsBefore(j) # {} => vtBlocks[j].column = minOf(fitsBefore(j))
        /\ fitsBefore(j) = {} => vtBlocks[j].column = Cardinality(columnsBefore(j))
        /\ placedBefore(j) = {} => vtBlocks[j].column = 0

\* Witness of C22: columns 1 and 2 are both free for the fourth task of a
\* cluster, column 0 is not, and the task is in column 1.
C22_Witness ==
    /\ Len(vtBlocks) = 4
    /\ placedBefore(4) = {1, 2, 3}
    /\ fitsBefore(4) = {1, 2}
    /\ vtBlocks[4].column = 1

\* The events of a list that are not MEMO events.
withoutMemos(events) == SelectSeq(events, LAMBDA e : e.type # "MEMO")

\* C23: the task list, and the map it is taken from, are those of the input
\* with its MEMO events removed, also when a MEMO has the eventId of a START
\* or the refEventId of an END.
C23_MemosNotConsumed ==
    /\ rTasks = eventsToTasks(withoutMemos(rToday), withoutMemos(rYesterday), rNow)
    /\ rTaskMap = taskMapOf(withoutMemos(rToday), withoutMemos(rYesterday))

\* Witness of C23: a MEMO between the START and the END of a task that
\* carries the task's id, and the task is in the list, closed.
C23_Witness ==
    \E i, j, k \in 1..Len(rAll) :
        /\ i < j /\ j < k
        /\ rAll[i].type = "START"
        /\ rAll[j].type = "MEMO" /\ rAll[j].eventId = rAll[i].eventId
        /\ rAll[k].type = "END" /\ rAll[k].refEventId = rAll[i].eventId
        /\ \E t \in 1..Len(rTasks) :
              rTasks[t].eventId = rAll[i].eventId /\ ~rTasks[t].isActive

----------------------------------------------------------------------------
(* State updates of the journal hook, checked under Spec *)

eventsOf(events) == {events[k] : k \in 1..Len(events)}

\* The events stored for the date of call i since the call was made: each was
\* written by an appendEvent that completed while call i was in flight.
writtenMeanwhile(i) ==
    eventsOf(files[calls[i].date]) \ eventsOf(calls[i].before)

\* Call i read at least the journal that was stored when it was made.
readFaithfully(i) ==
    isPrefix(calls[i].before, SubSeq(calls[i].buf, 1, Len(calls[i].buf) - 1))

\* C24 (as claimed): when an appendEvent completes without error, the stored
\* journal of its date holds its event and the event of every appendEvent
\* that overlapped it and completed before it.
C24_NoLostUpdate ==
    [][\A i \in 1..MaxCalls :
          (appendCompletes(i) /\ readFaithfully(i))
          => (writtenMeanwhile(i) \cup {calls[i].event})
                 \subseteq eventsOf(files'[calls[i].date])]_vars

loadsInFlight == {i \in 1..Len(calls) : calls[i].op \in {"loadToday", "loadDate"}}

\* No load is in flight and none has failed since the last one was requested.
loadsCompleted == loadsInFlight = {} /\ error = NoError /\ lastLoad.op # "none"

\* C25 (as claimed): once the loads have completed, journal and tasks are
\* those of the load of the date that was requested last.
C25_LatestRequestShown ==
    loadsCompleted => (journal[1].date = lastRequest /\ lastLoad.date = lastRequest)

\* The step in which load call i finishes: its finally block has run.
loadCompletes(i) ==
    /\ i \in loadsInFlight
    /\ Len(calls') = Len(calls) - 1
    /\ calls' = removeCall(i)

\* C26: the step that ends a load leaves isLoading false, and it either sets
\* the error and changes neither journal nor tasks (loadJournal threw) or
\* leaves the error as it was and sets the journal of the requested date.
C26_FailedLoadKeepsView ==
    [][\A i \in 1..MaxCalls :
          loadCompletes(i)
          => /\ isLoading' = FALSE
             /\ \/ (error' # NoError /\ journal' = journal /\ tasks' = tasks)
                \/ (/\ error' = error
                    /\ journal' # <<>>
                    /\ journal'[1].date = calls[i].date)]_vars

\* Witness of C26: the load requested last, of another date than the journal
\* shown, has failed: the journal and its tasks are still there, the error is
\* set and isLoading is false.
C26_Witness ==
    /\ loadsInFlight = {}
    /\ error = LoadError
    /\ ~isLoading
    /\ journal # <<>>
    /\ journal[1].date # lastRequest
    /\ tasks # <<>>

----------------------------------------------------------------------------
(* The columns and the blocks of the layout, checked under SpecLayout *)

\* C27: every block has 0 <= column < totalColumns, the blocks of one
\* cluster carry the same totalColumns, and every column index below a
\* cluster's totalColumns is the column of a block of that cluster.
C27_ColumnsWellFormed ==
    /\ \A i \in blockIds :
          vtBlocks[i].column >= 0 /\ vtBlocks[i].column < vtBlocks[i].totalColumns
    /\ \A i, j \in blockIds :
          vtBlocks[i].cluster = vtBlocks[j].cluster
          => vtBlocks[i].totalColumns = vtBlocks[j].totalColumns
    /\ \A i \in blockIds :
          \A c \in 0..(vtBlocks[i].totalColumns - 1) :
              \E j \in blocksOfCluster(vtBlocks[i].cluster) : vtBlocks[j].column = c

\* Witness of C27: a cluster of three blocks in two columns, one column used
\* twice, next to a cluster of one block.
C27_Witness ==
    /\ Len(vtBlocks) = 4
    /\ \E c \in clusterIds :
          /\ Cardinality(blocksOfCluster(c)) = 3
          /\ \A i \in blocksOfCluster(c) : vtBlocks[i].totalColumns = 2
    /\ \E i \in blockIds : vtBlocks[i].totalColumns = 1

closedTasks == {k \in 1..Len(vtTasks) : ~vtTasks[k].isActive /\ "endTime" \in DOMAIN vtTasks[k]}

\* C28: there are as many blocks as closed tasks, every closed task has
\* exactly one block and every block exactly one closed task, with the task's
\* times; the clusters are numbered 1, 2, ... along the placement order, so
\* that every block is in one cluster and every cluster is a run of blocks.
C28_NoDropNoDuplicate ==
    /\ Len(vtBlocks) = Cardinality(closedTasks)
    /\ \A k \in closedTasks : Cardinality(blocksOfTask(k)) = 1
    /\ \A b \in blockIds :
          /\ Cardinality(tasksOfBlock(b)) = 1
          /\ \A k \in tasksOfBlock(b) :
                /\ vtBlocks[b].startTime = vtTasks[k].startTime
                /\ vtBlocks[b].endTime = vtTasks[k].endTime
    /\ vtBlocks # <<>> => vtBlocks[1].cluster = 1
    /\ \A b \in blockIds \ {1} :
          vtBlocks[b].cluster \in {vtBlocks[b - 1].cluster, vtBlocks[b - 1].cluster + 1}

\* Witness of C28: four closed tasks, two of them with the same times, and
\* an order of the blocks that is not the order of the list; two clusters.
C28_Witness ==
    /\ Len(vtTasks) = 4
    /\ Len(vtBlocks) = 4
    /\ vtTasks[1].startTime = vtTasks[2].startTime
    /\ vtTasks[1].endTime = vtTasks[2].endTime
    /\ vtBlocks[1].eventId = 4
    /\ clusterIds = {1, 2}

----------------------------------------------------------------------------
(* Sign-out, checked under SpecAuth *)

tokenStored ==
    \/ accessToken # NoToken
    \/ sessionStorage.token # NoToken
    \/ localStorage.token # NoToken

\* C29 (as claimed): from a signOut until signIn or silentSignIn is called
\* again, getAccessToken returns null and no access token is stored in
\* memory, sessionStorage or localStorage.
C29_SignOutIsFinal ==
    signedOut =>
        /\ ~tokenStored
        /\ getAccessToken(accessToken, sessionStorage, localStorage, aNow) = NoToken

----------------------------------------------------------------------------
(* The tag summary, checked under SpecReconcile *)

\* The closed tasks of the list that count for a tag: those with the tag
\* among their tags and, for the key of the tasks without tags, those
\* without tags.
closedCarrying(tag) ==
    SelectSeq(rTasks,
              LAMBDA t : /\ ~t.isActive
                         /\ \/ \E k \in 1..Len(t.tags) : t.tags[k] = tag
                            \/ (t.tags = <<>> /\ tag = OtherTag))

summaryIds == 1..Len(rTagSummary)

\* C30 (as claimed): every entry of the summary has the sum of the durations
\* of the closed tasks that carry its tag as totalMinutes and a percentage
\* from 0 to 100, and the entries are in order of totalMinutes descending.
C30_ValidBarWidths ==
    /\ \A i \in summaryIds :
          /\ rTagSummary[i].totalMinutes = sumDurations(closedCarrying(rTagSummary[i].tag))
          /\ rTagSummary[i].percentage >= 0
          /\ rTagSummary[i].percentage <= 100
    /\ \A i, j \in summaryIds :
          i < j => rTagSummary[i].totalMinutes >= rTagSummary[j].totalMinutes

====
